---- MODULE Spec2Model ----
(***************************************************************************)
(* Model of the revenue-ranked content pipeline of GlobalBlogAuto:         *)
(* process_global_content_generation (src/main.py) and the collaborators   *)
(* it calls (revenue optimizer, Gemini engine, SEO optimizer, country      *)
(* designer, database manager, auto publisher, revenue tracker).           *)
(*                                                                         *)
(* One run is a program counter walking the loops of                       *)
(* process_global_content_generation; every await of the coroutine, and   *)
(* the increment of total_generated, is one step.  The history variable    *)
(* units records, per unit started, the stages it ran and how it ended.    *)
(* Numbers of the revenue table are scaled to integers: cpm,               *)
(* purchasing_power, market_size and competition by 10, ad_click_rate and  *)
(* affiliate_conversion by 1000.                                           *)
(*                                                                         *)
(* The functions of the ranking engine and of the spot engine are also     *)
(* taken by themselves (SpecCalls): the variable call holds one call, its  *)
(* arguments drawn from bounded sets, and the result the function gives.   *)
(***************************************************************************)
EXTENDS Integers, Sequences, FiniteSets, TLC

\* ------------------------------------------------------------------ bounds
MaxKeywords == 2
MaxTypes == 2
MaxCountries == 2

\* The run never looks into a keyword or a content type, so the lists are
\* taken up to renaming: a non-empty list starts with the first name.
KeywordPool == {"k1", "k2"}
TypePool == {"guide", "review"}
\* "UK" is ranked above "Japan" and has no design profile; "Zed" has no
\* entry in any table of the program.
CountryPool == {"Japan", "UK", "Zed"}

SeqsUpTo(S, n) == UNION {[1..k -> S] : k \in 0..n}

\* ------------------------------------------------- revenue_optimizer.py
\* Iteration order of the dict literal country_revenue_data.
RevenueCountries ==
  <<"USA", "Germany", "UK", "Canada", "Singapore", "Australia", "Japan", "Korea">>

\* has_cpm is FALSE where the literal spells the key "cmp".
country_revenue_data ==
  [c \in {RevenueCountries[i] : i \in 1..Len(RevenueCountries)} |->
    CASE c = "USA"       -> [has_cpm |-> TRUE,  cpm |-> 125, ad_click_rate |-> 80,
                             affiliate_conversion |-> 35, purchasing_power |-> 95,
                             market_size |-> 100, competition |-> 85]
      [] c = "Germany"   -> [has_cpm |-> TRUE,  cpm |-> 87, ad_click_rate |-> 60,
                             affiliate_conversion |-> 28, purchasing_power |-> 89,
                             market_size |-> 85, competition |-> 72]
      [] c = "UK"        -> [has_cpm |-> TRUE,  cpm |-> 91, ad_click_rate |-> 75,
                             affiliate_conversion |-> 32, purchasing_power |-> 87,
                             market_size |-> 78, competition |-> 80]
      [] c = "Canada"    -> [has_cpm |-> TRUE,  cpm |-> 89, ad_click_rate |-> 70,
                             affiliate_conversion |-> 30, purchasing_power |-> 83,
                             market_size |-> 65, competition |-> 68]
      [] c = "Singapore" -> [has_cpm |-> TRUE,  cpm |-> 83, ad_click_rate |-> 65,
                             affiliate_conversion |-> 38, purchasing_power |-> 88,
                             market_size |-> 52, competition |-> 75]
      [] c = "Australia" -> [has_cpm |-> FALSE, cpm |-> 78, ad_click_rate |-> 68,
                             affiliate_conversion |-> 29, purchasing_power |-> 79,
                             market_size |-> 60, competition |-> 62]
      [] c = "Japan"     -> [has_cpm |-> TRUE,  cpm |-> 72, ad_click_rate |-> 55,
                             affiliate_conversion |-> 25, purchasing_power |-> 81,
                             market_size |-> 80, competition |-> 90]
      [] c = "Korea"     -> [has_cpm |-> TRUE,  cpm |-> 62, ad_click_rate |-> 45,
                             affiliate_conversion |-> 22, purchasing_power |-> 72,
                             market_size |-> 68, competition |-> 85]]

\* revenue_score of one table entry, times 1000:
\* cpm*0.3 + purchasing_power*0.25 + market_size*0.2 + (10-competition)*0.15
\* + ad_click_rate*100*0.1, with data.get("cpm", 0) for a missing key.
revenue_score(data) ==
  (IF data.has_cpm THEN data.cpm ELSE 0) * 30
  + data.purchasing_power * 25
  + data.market_size * 20
  + (100 - data.competition) * 15
  + data.ad_click_rate * 10

\* Mutant: an ascending sort reversed afterwards, which turns the order of
\* keys with equal scores around.
SortedDescStable_ReversedTies(keys, score) ==
  LET n == Len(keys)
      rank(i) == Cardinality({j \in 1..n :
                    \/ score[keys[j]] > score[keys[i]]
                    \/ score[keys[j]] = score[keys[i]] /\ j > i}) + 1
  IN  [p \in 1..n |-> keys[CHOOSE i \in 1..n : rank(i) = p]]

\* sorted(keys, key=score, reverse=True): a stable sort, so a key stands
\* before another iff its score is higher, or equal and it came first.
SortedDescStable(keys, score) ==
  LET n == Len(keys)
      rank(i) == Cardinality({j \in 1..n :
                    \/ score[keys[j]] > score[keys[i]]
                    \/ score[keys[j]] = score[keys[i]] /\ j < i}) + 1
  IN  [p \in 1..n |-> keys[CHOOSE i \in 1..n : rank(i) = p]]

Range(s) == {s[i] : i \in 1..Len(s)}

\* Lines 130-144 for a table given by its keys, in iteration order, and its
\* entries.
rank_by_revenue(keys, data) ==
  LET country_scores == [c \in Range(keys) |-> revenue_score(data[c])]
  IN  SortedDescStable(keys, country_scores)

_rank_countries_by_revenue == rank_by_revenue(RevenueCountries, country_revenue_data)

top_countries == _rank_countries_by_revenue

RECURSIVE FilterSeq(_, _)
FilterSeq(s, keep) ==
  IF s = <<>> THEN <<>>
  ELSE (IF Head(s) \in keep THEN <<Head(s)>> ELSE <<>>) \o FilterSeq(Tail(s), keep)

\* Mutant: the requested list is returned as it is, unknown countries
\* included.
sort_countries_by_revenue_Unfiltered(countries) == countries

\* Mutant: the comprehension runs over the requested list and keeps what is
\* ranked, so the result follows the order, and the repetitions, of the
\* request.
sort_countries_by_revenue_RequestOrder(countries) ==
  FilterSeq(countries, Range(top_countries))

\* [country for country in self.top_countries if country in countries]
sort_countries_by_revenue(countries) == FilterSeq(top_countries, Range(countries))

\* --------------------------------------------------- country_designer.py
DesignCountries == {"USA", "Germany", "Japan"}

design_profiles ==
  [c \in DesignCountries |->
    CASE c = "USA"     -> [theme_name |-> "American Premium", layout |-> "wide_grid"]
      [] c = "Germany" -> [theme_name |-> "Deutsche Qualitaet", layout |-> "technical_grid"]
      [] c = "Japan"   -> [theme_name |-> "Modern Zen", layout |-> "vertical_harmony"]]

\* The keyword arguments _create_complete_html passes to str.format.
FormatArguments == {"title", "css", "content"}

AsyncTemplateFields(layout) ==
  IF layout = "wide_grid"
    THEN {"header_style", "title", "navigation", "content", "monetization_elements",
          "sidebar_ads", "related_content", "footer_content"}
    ELSE {"title", "content", "monetization_elements", "footer_content"}

\* The class body defines _generate_html_template twice; the second
\* definition, an async def, is the one bound to the name.  Calling it
\* without await returns a coroutine object, not the template string.
_generate_html_template(profile) ==
  [kind |-> "coroutine", fields |-> AsyncTemplateFields(profile.layout)]

\* Mutant: the profile is looked up without the default, so a country
\* without a design profile raises KeyError.
get_country_design_NoDefault(country) ==
  IF country \in DesignCountries
    THEN [raised |-> FALSE, error |-> "none",
          value |-> [profile |-> design_profiles[country],
                     css_styles |-> "str",
                     html_template |-> _generate_html_template(design_profiles[country])]]
    ELSE [raised |-> TRUE, error |-> "KeyError",
          value |-> [profile |-> design_profiles["USA"],
                     css_styles |-> "none",
                     html_template |-> [kind |-> "none", fields |-> {}]]]

get_country_design(country) ==
  LET profile == IF country \in DesignCountries
                   THEN design_profiles[country] ELSE design_profiles["USA"]
  IN  [raised |-> FALSE, error |-> "none",
       value |-> [profile |-> profile,
                  css_styles |-> "str",
                  html_template |-> _generate_html_template(profile)]]

\* template.format(title=..., css=..., content=...): AttributeError when the
\* template is no string, KeyError when it names a field that is not passed.
_create_complete_html(content, design) ==
  IF design.html_template.kind # "str"
    THEN [raised |-> TRUE, error |-> "AttributeError"]
    ELSE IF ~(design.html_template.fields \subseteq FormatArguments)
      THEN [raised |-> TRUE, error |-> "KeyError"]
      ELSE [raised |-> FALSE, error |-> "none"]

apply_design(content, design) ==
  LET html == _create_complete_html(content, design)
  IN  IF html.raised
        THEN [raised |-> TRUE, error |-> html.error, value |-> content]
        ELSE [raised |-> FALSE, error |-> "none",
              value |-> [content EXCEPT !.full_html = TRUE]]

\* ------------------------------------------------------ gemini_engine.py
\* api_ok: whether the request to the text generation provider succeeded.
\* An exception inside generate_content is caught there and answered with
\* the fallback content; nothing is raised to the caller.
generate_content(keyword, country, content_type, api_ok) ==
  [raised |-> FALSE, error |-> "none",
   value |-> [status |-> IF api_ok THEN "generated" ELSE "fallback",
              keyword |-> keyword, country |-> country,
              seo |-> FALSE, monetized |-> FALSE, full_html |-> FALSE]]

\* ------------------------------------------------------ seo_optimizer.py
optimize_content(content, country) ==
  [raised |-> FALSE, error |-> "none", value |-> [content EXCEPT !.seo = TRUE]]

\* -------------------------------------------------- revenue_optimizer.py
add_monetization(content, country) ==
  [raised |-> FALSE, error |-> "none", value |-> [content EXCEPT !.monetized = TRUE]]

\* ---------------------------------------------------- database/manager.py
\* db_ok: whether the INSERT and commit succeeded.  save_content catches
\* its own exception, logs it and returns None either way.
save_content(content, country, keyword, db_ok) ==
  [raised |-> FALSE, error |-> "none", stored |-> db_ok]

\* ---------------------------------------------------- auto_publisher.py
\* deploy_ok: whether the deployment succeeded.  publish_to_vercel catches
\* its own exception and returns a record with status failed.
publish_to_vercel(content, country, deploy_ok) ==
  [raised |-> FALSE, error |-> "none",
   status |-> IF deploy_ok THEN "success" ELSE "failed"]

\* ---------------------------------------------------------------- main.py
VARIABLES
  keywords, target_countries, content_types,   \* arguments of the run
  auto_publish, seo_optimization,              \* arguments of the run
  pc,                \* position of the run in process_global_content_generation
  sorted_countries,  \* local of the run
  ci, ki, ti,        \* positions of the three for loops (1-based)
  design_config,     \* local of the run
  content,           \* local of the run: content, then styled_content
  total_generated,   \* local of the run
  run_result,        \* "running", "returned", "caught" (outer except ran) or
                     \* "cancelled" (the task was cancelled)
  failing_keywords,  \* environment: keywords the provider's request fails for
  units,             \* history: one record per unit started, in start order
  saved,             \* rows of the content table: <<country, keyword>>
  deployed_sites,    \* auto_publisher.deployed_sites: countries with an entry
  revenue_data,      \* revenue_tracker.revenue_data: country -> content_count
  call,              \* one call of a function of the engines taken by itself:
                     \* its name, its arguments, its result (NoCall in a run)
  other_run          \* the locals of a second run of the coroutine while it is
                     \* suspended (NoRun when there is one run only)

run_vars ==
  <<keywords, target_countries, content_types, auto_publish, seo_optimization,
    pc, sorted_countries, ci, ki, ti, design_config, content, total_generated,
    run_result, failing_keywords, units, saved, deployed_sites, revenue_data>>

vars == <<run_vars, call, other_run>>

args ==
  <<keywords, target_countries, content_types, auto_publish, seo_optimization,
    failing_keywords>>

NoContent ==
  [status |-> "none", keyword |-> "none", country |-> "none",
   seo |-> FALSE, monetized |-> FALSE, full_html |-> FALSE]

NoDesign ==
  [profile |-> [theme_name |-> "none", layout |-> "none"],
   css_styles |-> "none",
   html_template |-> [kind |-> "none", fields |-> {}]]

NoCall ==
  [op |-> "none", args |-> <<>>, args_after |-> <<>>, step |-> 0,
   result |-> <<>>, again |-> <<>>]

NoRun == [pc |-> "none"]

Stages == {"generate", "seo", "monetize", "render", "persist", "publish", "count", "sleep"}

\* The coroutine called with its arguments, nothing of it run yet.
FirstRun ==
  /\ keywords \in SeqsUpTo(KeywordPool, MaxKeywords)
  /\ Len(keywords) > 0 => keywords[1] = "k1"
  /\ target_countries \in SeqsUpTo(CountryPool, MaxCountries)
  /\ content_types \in SeqsUpTo(TypePool, MaxTypes)
  /\ Len(content_types) > 0 => content_types[1] = "guide"
  /\ auto_publish \in BOOLEAN
  /\ seo_optimization \in BOOLEAN
  /\ pc = "start"
  /\ sorted_countries = <<>>
  /\ ci = 1 /\ ki = 1 /\ ti = 1
  /\ design_config = NoDesign
  /\ content = NoContent
  /\ total_generated = 0
  /\ run_result = "running"
  /\ failing_keywords \in SUBSET Range(keywords)
  /\ units = <<>>
  /\ saved = <<>>
  /\ deployed_sites = {}
  /\ revenue_data = [c \in {} |-> 0]
  /\ call = NoCall

Init == FirstRun /\ other_run = NoRun

\* Mutant: monetization is applied before the SEO formatting.
NextStage_MonetizeFirst(stage, seo, publish) ==
  CASE stage = "generate" -> "monetize"
    [] stage = "monetize" -> IF seo THEN "seo" ELSE "render"
    [] stage = "seo"      -> "render"
    [] stage = "render"   -> "persist"
    [] stage = "persist"  -> IF publish THEN "publish" ELSE "count"
    [] stage = "publish"  -> "count"
    [] stage = "count"    -> "sleep"
    [] OTHER              -> "next_unit"

\* The stage that follows `stage` in the try body (lines 345-374).
NextStage(stage, seo, publish) ==
  CASE stage = "generate" -> IF seo THEN "seo" ELSE "monetize"
    [] stage = "seo"      -> "monetize"
    [] stage = "monetize" -> "render"
    [] stage = "render"   -> "persist"
    [] stage = "persist"  -> IF publish THEN "publish" ELSE "count"
    [] stage = "publish"  -> "count"
    [] stage = "count"    -> "sleep"
    [] OTHER              -> "next_unit"

\* The handler that catches an exception raised at position `at`: the try
\* of lines 344-378 encloses the stages of a unit, the try of lines 329-386
\* everything else.
\* Mutant: the try of the unit is missing, every exception reaches the
\* outer handler.
ExceptTarget_OuterOnly(at) == "outer_except"

ExceptTarget(at) ==
  IF at \in Stages THEN "unit_except" ELSE "outer_except"

\* Mutant: a pair equal to the pair just processed is skipped.
NextPos_SkipRepeated(k, t, kws, cts) ==
  LET Raw(a, b) == IF b < Len(cts) THEN <<a, b + 1>>
                   ELSE IF a < Len(kws) THEN <<a + 1, 1>>
                   ELSE <<0, 0>>
      n == Raw(k, t)
  IN  IF n # <<0, 0>> /\ kws[n[1]] = kws[k] /\ cts[n[2]] = cts[t]
        THEN Raw(n[1], n[2])
        ELSE n

\* Mutant: the two loops are nested the other way round.
NextPos_TypesOuter(k, t, kws, cts) ==
  IF k < Len(kws) THEN <<k + 1, t>>
  ELSE IF t < Len(cts) THEN <<1, t + 1>>
  ELSE <<0, 0>>

\* The position after the unit at (k, t): the next content type, else the
\* next keyword, else the end of the two inner loops (<<0, 0>>).
NextPos(k, t, kws, cts) ==
  IF t < Len(cts) THEN <<k, t + 1>>
  ELSE IF k < Len(kws) THEN <<k + 1, 1>>
  ELSE <<0, 0>>

\* Enter the body of `for country in sorted_countries` or leave the loop.
GotoNextUnit ==
  LET nxt == NextPos(ki, ti, keywords, content_types)
  IN  IF nxt = <<0, 0>>
        THEN /\ pc' = "country"
             /\ ci' = ci + 1
             /\ ki' = 1 /\ ti' = 1
        ELSE /\ pc' = "generate"
             /\ ci' = ci
             /\ ki' = nxt[1] /\ ti' = nxt[2]

\* Lines 330-335.
BeginRun ==
  /\ pc = "start"
  /\ sorted_countries' = sort_countries_by_revenue(target_countries)
  /\ total_generated' = 0
  /\ pc' = "country"
  /\ UNCHANGED <<args, ci, ki, ti, design_config, content, run_result,
                 units, saved, deployed_sites, revenue_data, call, other_run>>

\* Lines 336-343: the next country's design, then its first unit, if any.
ResolveDesign ==
  /\ pc = "country"
  /\ ci <= Len(sorted_countries)
  /\ LET r == get_country_design(sorted_countries[ci])
     IN  IF r.raised
           THEN /\ pc' = ExceptTarget("country")
                /\ UNCHANGED <<design_config, ci>>
           ELSE /\ design_config' = r.value
                /\ IF Len(keywords) > 0 /\ Len(content_types) > 0
                     THEN pc' = "generate" /\ ci' = ci
                     ELSE pc' = "country" /\ ci' = ci + 1
  /\ ki' = 1 /\ ti' = 1
  /\ UNCHANGED <<args, sorted_countries, content, total_generated, run_result,
                 units, saved, deployed_sites, revenue_data, call, other_run>>

Last(s) == s[Len(s)]

SetLast(s, field, value) ==
  [s EXCEPT ![Len(s)] = [@ EXCEPT ![field] = value]]

StageDone(s, stage) ==
  [s EXCEPT ![Len(s)] = [@ EXCEPT !.stages = Append(@, stage)]]

NewUnit(country, keyword, content_type, api_ok) ==
  [country |-> country, keyword |-> keyword, content_type |-> content_type,
   gen_ok |-> api_ok, stages |-> <<"generate">>, outcome |-> "running",
   store |-> "none", publish |-> "none", slept |-> FALSE, error |-> "none"]

\* What the run does with the result of a stage: go on to the next stage,
\* or to the handler when the stage raised.
AfterStage(stage, result) ==
  IF result.raised
    THEN pc' = ExceptTarget(stage)
    ELSE pc' = NextStage(stage, seo_optimization, auto_publish)

\* Line 346.
Generate ==
  LET country == sorted_countries[ci]
      api_ok == keywords[ki] \notin failing_keywords
      r == generate_content(keywords[ki], country, content_types[ti], api_ok)
  IN  /\ content' = r.value
      /\ units' = Append(units, NewUnit(country, keywords[ki], content_types[ti], api_ok))
      /\ AfterStage("generate", r)
      /\ UNCHANGED <<total_generated, saved, deployed_sites>>

\* Line 355.
FormatSeo ==
  LET r == optimize_content(content, sorted_countries[ci])
  IN  /\ content' = r.value
      /\ units' = StageDone(units, "seo")
      /\ AfterStage("seo", r)
      /\ UNCHANGED <<total_generated, saved, deployed_sites>>

\* Line 358.
Monetize ==
  LET r == add_monetization(content, sorted_countries[ci])
  IN  /\ content' = r.value
      /\ units' = StageDone(units, "monetize")
      /\ AfterStage("monetize", r)
      /\ UNCHANGED <<total_generated, saved, deployed_sites>>

\* Line 361.
RenderDesign ==
  LET r == apply_design(content, design_config)
  IN  /\ content' = r.value
      /\ units' = SetLast(StageDone(units, "render"), "error", r.error)
      /\ AfterStage("render", r)
      /\ UNCHANGED <<total_generated, saved, deployed_sites>>

\* Line 364.
Persist ==
  \E db_ok \in BOOLEAN :
    LET r == save_content(content, sorted_countries[ci], keywords[ki], db_ok)
    IN  /\ saved' = IF r.stored
                      THEN Append(saved, <<sorted_countries[ci], keywords[ki]>>)
                      ELSE saved
        /\ units' = SetLast(StageDone(units, "persist"), "store",
                            IF r.stored THEN "saved" ELSE "failed")
        /\ AfterStage("persist", r)
        /\ UNCHANGED <<content, total_generated, deployed_sites>>

\* Line 368.
Publish ==
  \E deploy_ok \in BOOLEAN :
    LET r == publish_to_vercel(content, sorted_countries[ci], deploy_ok)
    IN  /\ deployed_sites' = IF r.status = "success"
                               THEN deployed_sites \cup {sorted_countries[ci]}
                               ELSE deployed_sites
        /\ units' = SetLast(StageDone(units, "publish"), "publish", r.status)
        /\ AfterStage("publish", r)
        /\ UNCHANGED <<content, total_generated, saved>>

\* Line 370.
Count ==
  /\ total_generated' = total_generated + 1
  /\ units' = SetLast(StageDone(units, "count"), "outcome", "counted")
  /\ pc' = NextStage("count", seo_optimization, auto_publish)
  /\ UNCHANGED <<content, saved, deployed_sites>>

\* One step of the try body of a unit (lines 345-370): the stage at pc.
\* With the design of get_country_design no run gets past "render".
Stage ==
  /\ pc \in Stages \ {"sleep"}
  /\ CASE pc = "generate" -> Generate
       [] pc = "seo"      -> FormatSeo
       [] pc = "monetize" -> Monetize
       [] pc = "render"   -> RenderDesign
       [] pc = "persist"  -> Persist
       [] pc = "publish"  -> Publish
       [] pc = "count"    -> Count
  /\ UNCHANGED <<args, sorted_countries, ci, ki, ti, design_config, run_result,
                 revenue_data, call, other_run>>

\* Line 374, await asyncio.sleep(1), and lines 376-378, the handler of the
\* unit: both end the unit and go on with the next one.
EndUnit ==
  /\ pc \in {"sleep", "unit_except"}
  /\ units' = IF pc = "sleep"
                THEN SetLast(StageDone(units, "sleep"), "slept", TRUE)
                ELSE SetLast(units, "outcome", "aborted")
  /\ GotoNextUnit
  /\ UNCHANGED <<args, sorted_countries, design_config, content, total_generated,
                 run_result, saved, deployed_sites>>
  /\ UNCHANGED <<revenue_data, call, other_run>>

\* revenue_tracker.update_content_metrics(content_count, countries).
update_content_metrics(data, content_count, countries) ==
  [c \in DOMAIN data \cup Range(countries) |->
     IF c \in Range(countries)
       THEN (IF c \in DOMAIN data THEN data[c] ELSE 0) + content_count
       ELSE data[c]]

\* Lines 380-383 after the last country, or lines 385-386 when an exception
\* reached the outer handler: either way the coroutine returns.
EndRun ==
  /\ \/ pc = "country" /\ ci > Len(sorted_countries)
     \/ pc = "outer_except"
  /\ IF pc = "outer_except"
       THEN /\ run_result' = "caught"
            /\ UNCHANGED revenue_data
       ELSE /\ run_result' = "returned"
            /\ revenue_data' = update_content_metrics(revenue_data, total_generated,
                                                     sorted_countries)
  /\ pc' = "done"
  /\ UNCHANGED <<args, sorted_countries, ci, ki, ti, design_config, content,
                 total_generated, units, saved, deployed_sites, call, other_run>>

Next == BeginRun \/ ResolveDesign \/ Stage \/ EndUnit \/ EndRun

Spec == Init /\ [][Next]_vars

\* ------------------------------------------------ main.py, cancellation
\* The run has no stop request of its own: it is a background task, and it
\* can be stopped only by cancelling the task.  asyncio raises
\* CancelledError in the task at the await where it is suspended: the
\* request to the provider (gemini_engine.py:256), the deployment
\* (auto_publisher.py:66) or the pause after a unit (main.py:374).
\* CancelledError is no Exception, so neither the collaborators' handlers
\* nor the handlers of lines 376 and 385 catch it: the coroutine ends there.
Cancel ==
  /\ pc \in {"generate", "publish", "sleep"}
  /\ units' =
       CASE pc = "generate" ->
              Append(units,
                     [NewUnit(sorted_countries[ci], keywords[ki], content_types[ti], FALSE)
                        EXCEPT !.outcome = "cancelled"])
         [] pc = "publish" -> SetLast(StageDone(units, "publish"), "outcome", "cancelled")
         [] pc = "sleep" -> StageDone(units, "sleep")
  /\ run_result' = "cancelled"
  /\ pc' = "done"
  /\ UNCHANGED <<args, sorted_countries, ci, ki, ti, design_config, content,
                 total_generated, saved, deployed_sites, revenue_data, call, other_run>>

NextCancel == Next \/ Cancel

SpecCancel == Init /\ [][NextCancel]_vars

\* --------------------------------------------- main.py, two runs at once
\* Each POST of /generate-content adds process_global_content_generation as
\* a background task (lines 261-274), so two runs can be under way in the
\* one event loop.  Each has its own arguments and locals; the content
\* table, deployed_sites and revenue_data belong to module-level objects
\* and are shared.  The locals of the run that is suspended:
Locals ==
  [keywords |-> keywords, target_countries |-> target_countries,
   content_types |-> content_types, auto_publish |-> auto_publish,
   seo_optimization |-> seo_optimization, pc |-> pc,
   sorted_countries |-> sorted_countries, ci |-> ci, ki |-> ki, ti |-> ti,
   design_config |-> design_config, content |-> content,
   total_generated |-> total_generated, run_result |-> run_result,
   units |-> units]

\* The event loop runs one task until it is suspended at an await (the
\* request to the provider, the deployment, the pause after a unit) or has
\* not begun or has returned.
SwitchPoints == {"start", "generate", "publish", "sleep", "done"}

\* The event loop goes on with the other run.
Switch ==
  /\ other_run # NoRun
  /\ pc \in SwitchPoints
  /\ other_run' = Locals
  /\ keywords' = other_run.keywords
  /\ target_countries' = other_run.target_countries
  /\ content_types' = other_run.content_types
  /\ auto_publish' = other_run.auto_publish
  /\ seo_optimization' = other_run.seo_optimization
  /\ pc' = other_run.pc
  /\ sorted_countries' = other_run.sorted_countries
  /\ ci' = other_run.ci /\ ki' = other_run.ki /\ ti' = other_run.ti
  /\ design_config' = other_run.design_config
  /\ content' = other_run.content
  /\ total_generated' = other_run.total_generated
  /\ run_result' = other_run.run_result
  /\ units' = other_run.units
  /\ UNCHANGED <<failing_keywords, saved, deployed_sites, revenue_data, call>>

\* Two runs called with the same arguments, neither begun.
TwoRunsInit == FirstRun /\ other_run = Locals

NextTwoRuns == Next \/ Switch

SpecTwoRuns == TwoRunsInit /\ [][NextTwoRuns]_vars

\* ------------------------------------------ gemini_engine.py, the spots
\* A str is the sequence of its characters.
UpperCase == <<"A", "B", "C", "D", "E", "F", "G", "H", "I", "J", "K", "L", "M", "N", "O", "P", "Q", "R", "S", "T", "U", "V", "W", "X", "Y", "Z">>

LowerCase == <<"a", "b", "c", "d", "e", "f", "g", "h", "i", "j", "k", "l", "m", "n", "o", "p", "q", "r", "s", "t", "u", "v", "w", "x", "y", "z">>

\* str.lower() on the letters A-Z; every other character stays.
lower(line) ==
  [i \in 1..Len(line) |->
     IF \E j \in 1..26 : UpperCase[j] = line[i]
       THEN LowerCase[CHOOSE j \in 1..26 : UpperCase[j] = line[i]]
       ELSE line[i]]

\* word in line
Contains(line, word) ==
  \E k \in 0..(Len(line) - Len(word)) :
    \A i \in 1..Len(word) : line[k + i] = word[i]

\* line.startswith(prefix)
startswith(line, prefix) ==
  /\ Len(line) >= Len(prefix)
  /\ \A i \in 1..Len(prefix) : line[i] = prefix[i]

\* content.split('\n') on the text: the pieces between the newlines, one
\* more than there are newlines ('' gives ['']).
RECURSIVE split(_)
split(text) ==
  IF \A i \in 1..Len(text) : text[i] # "\n"
    THEN <<text>>
    ELSE LET k == CHOOSE i \in 1..Len(text) :
                    /\ text[i] = "\n"
                    /\ \A j \in 1..(i - 1) : text[j] # "\n"
         IN  <<SubSeq(text, 1, k - 1)>> \o split(SubSeq(text, k + 1, Len(text)))

\* ['product', 'tool', 'service', 'option', 'solution']
ProductWords == {<<"p", "r", "o", "d", "u", "c", "t">>,
                 <<"t", "o", "o", "l">>,
                 <<"s", "e", "r", "v", "i", "c", "e">>,
                 <<"o", "p", "t", "i", "o", "n">>,
                 <<"s", "o", "l", "u", "t", "i", "o", "n">>}

\* ['vs', 'compare', 'comparison', 'alternative']
ComparisonWords == {<<"v", "s">>,
                    <<"c", "o", "m", "p", "a", "r", "e">>,
                    <<"c", "o", "m", "p", "a", "r", "i", "s", "o", "n">>,
                    <<"a", "l", "t", "e", "r", "n", "a", "t", "i", "v", "e">>}

HeadingMarker == <<"#", "#">>

Opportunity(type, i, context, revenue_potential) ==
  [type |-> type, position |-> i, context |-> context,
   revenue_potential |-> revenue_potential]

\* Mutant: the three tests are chained with elif, a line yields at most one
\* opportunity.
line_opportunities_Exclusive(i, line) ==
  IF \E word \in ProductWords : Contains(lower(line), word)
    THEN <<Opportunity("affiliate_link", i, "product_mention", "high")>>
  ELSE IF startswith(line, HeadingMarker) /\ i > 0
    THEN <<Opportunity("display_ad", i, "section_break", "medium")>>
  ELSE IF \E word \in ComparisonWords : Contains(lower(line), word)
    THEN <<Opportunity("comparison_table", i, "comparison_section", "very_high")>>
  ELSE <<>>

\* Mutant: the test i > 0 is missing, a heading in the first line gets an
\* advertisement too.
line_opportunities_FirstLineToo(i, line) ==
  (IF \E word \in ProductWords : Contains(lower(line), word)
     THEN <<Opportunity("affiliate_link", i, "product_mention", "high")>>
     ELSE <<>>)
  \o (IF startswith(line, HeadingMarker)
        THEN <<Opportunity("display_ad", i, "section_break", "medium")>>
        ELSE <<>>)
  \o (IF \E word \in ComparisonWords : Contains(lower(line), word)
        THEN <<Opportunity("comparison_table", i, "comparison_section", "very_high")>>
        ELSE <<>>)

\* The body of the loop (lines 373-398): what line i appends.
line_opportunities(i, line) ==
  (IF \E word \in ProductWords : Contains(lower(line), word)
     THEN <<Opportunity("affiliate_link", i, "product_mention", "high")>>
     ELSE <<>>)
  \o (IF startswith(line, HeadingMarker) /\ i > 0
        THEN <<Opportunity("display_ad", i, "section_break", "medium")>>
        ELSE <<>>)
  \o (IF \E word \in ComparisonWords : Contains(lower(line), word)
        THEN <<Opportunity("comparison_table", i, "comparison_section", "very_high")>>
        ELSE <<>>)

\* for i, line in enumerate(lines), from line i on.
RECURSIVE ScanLines(_, _)
ScanLines(lines, i) ==
  IF i >= Len(lines) THEN <<>>
  ELSE line_opportunities(i, lines[i + 1]) \o ScanLines(lines, i + 1)

_identify_monetization_opportunities(text) == ScanLines(split(text), 0)

\* ------------------------------- gemini_engine.py, the content records
\* The characters str.strip() takes away at both ends, as far as they occur
\* in the texts.
Whitespace == {" ", "\n"}

\* text.strip()
strip(text) ==
  LET kept == {i \in 1..Len(text) : text[i] \notin Whitespace}
  IN  IF kept = {} THEN <<>>
      ELSE SubSeq(text, CHOOSE i \in kept : \A j \in kept : i <= j,
                        CHOOSE i \in kept : \A j \in kept : j <= i)

\* The f-string of _generate_simulation_content: the opening quotes are
\* followed by a newline, and the filled-in template by a newline and the
\* eight blanks before the closing quotes.
sample_content(template) ==
  <<"\n">> \o template \o <<"\n", " ", " ", " ", " ", " ", " ", " ", " ">>

\* _generate_simulation_content, the two fields the spots are about: the
\* body is the stripped text, the spots are those of the text as written.
_generate_simulation_content(template) ==
  [content |-> strip(sample_content(template)),
   monetization_spots |-> _identify_monetization_opportunities(sample_content(template))]

\* _parse_generated_content, the same two fields.
_parse_generated_content(content_text) ==
  [content |-> content_text,
   monetization_spots |-> _identify_monetization_opportunities(content_text)]

\* ------------------------------------- revenue_optimizer.py, the spots
\* A dict is a function on its keys.  Numbers are scaled as in the revenue
\* table: cpm by 10, affiliate_conversion by 1000.
Get(d, key, default) == IF key \in DOMAIN d THEN d[key] ELSE default

Put(d, key, value) ==
  [k \in DOMAIN d \cup {key} |-> IF k = key THEN value ELSE d[k]]

\* top_categories[:3]
FirstThree(s) == SubSeq(s, 1, IF Len(s) < 3 THEN Len(s) ELSE 3)

\* Mutant: the bounds of the cpm classes belong to the upper class.
display_ad_fields_AtLeast(optimized_spot, cpm) ==
  IF cpm >= 100
    THEN Put(Put(optimized_spot, "ad_size", "premium_banner"), "priority", "high")
  ELSE IF cpm >= 70
    THEN Put(Put(optimized_spot, "ad_size", "standard_banner"), "priority", "medium")
  ELSE Put(Put(optimized_spot, "ad_size", "text_ad"), "priority", "low")

\* Lines 196-205.
display_ad_fields(optimized_spot, cpm) ==
  IF cpm > 100
    THEN Put(Put(optimized_spot, "ad_size", "premium_banner"), "priority", "high")
  ELSE IF cpm > 70
    THEN Put(Put(optimized_spot, "ad_size", "standard_banner"), "priority", "medium")
  ELSE Put(Put(optimized_spot, "ad_size", "text_ad"), "priority", "low")

\* Mutant: the list of categories is not cut to three.
affiliate_fields_Uncut(optimized_spot, country_data) ==
  LET top_categories == Get(country_data, "top_affiliate_categories", <<>>)
  IN  Put(Put(optimized_spot, "recommended_categories", top_categories),
          "conversion_rate", Get(country_data, "affiliate_conversion", 20))

\* Mutant: the categories are added to those the spot already recommends.
affiliate_fields_Accumulate(optimized_spot, country_data) ==
  LET top_categories == Get(country_data, "top_affiliate_categories", <<>>)
  IN  Put(Put(optimized_spot, "recommended_categories",
              Get(optimized_spot, "recommended_categories", <<>>)
                \o FirstThree(top_categories)),
          "conversion_rate", Get(country_data, "affiliate_conversion", 20))

\* Lines 207-211.
affiliate_fields(optimized_spot, country_data) ==
  LET top_categories == Get(country_data, "top_affiliate_categories", <<>>)
  IN  Put(Put(optimized_spot, "recommended_categories", FirstThree(top_categories)),
          "conversion_rate", Get(country_data, "affiliate_conversion", 20))

\* Mutant: a cpm of exactly 8 is placed above the fold.
placement_AtLeast(cpm) == IF cpm >= 80 THEN "above_fold" ELSE "within_content"

\* Lines 213-217.
placement(cpm) == IF cpm > 80 THEN "above_fold" ELSE "within_content"

\* Mutant: optimized_spot is the spot itself, not a copy of it, so the
\* caller's spot is changed too.
_optimize_monetization_spot_NoCopy(spot, country_data) ==
  LET cpm == Get(country_data, "cpm", 50)
      typed == IF spot["type"] = "display_ad"
                 THEN display_ad_fields(spot, cpm)
               ELSE IF spot["type"] = "affiliate_link"
                 THEN affiliate_fields(spot, country_data)
               ELSE spot
      optimized_spot == Put(typed, "placement", placement(cpm))
  IN  [spot |-> optimized_spot, optimized_spot |-> optimized_spot]

\* Lines 189-219.  The result names the spot as the call leaves it, and
\* the spot returned.
_optimize_monetization_spot(spot, country_data) ==
  LET copy == spot
      cpm == Get(country_data, "cpm", 50)
      typed == IF spot["type"] = "display_ad"
                 THEN display_ad_fields(copy, cpm)
               ELSE IF spot["type"] = "affiliate_link"
                 THEN affiliate_fields(copy, country_data)
               ELSE copy
      optimized_spot == Put(typed, "placement", placement(cpm))
  IN  [spot |-> spot, optimized_spot |-> optimized_spot]

\* Lines 160-166 of add_monetization: the list of the optimized spots, and
\* the spots of the content as the loop leaves them.
optimized_spots(spots, country_data) ==
  LET r == [k \in 1..Len(spots) |-> _optimize_monetization_spot(spots[k], country_data)]
  IN  [spots |-> [k \in 1..Len(spots) |-> r[k].spot],
       optimized_spots |-> [k \in 1..Len(spots) |-> r[k].optimized_spot]]

\* -------------------------------- revenue_optimizer.py, the prediction
\* The prediction takes its profile in a finer scale than the revenue
\* table, so that sums with parts of a cent occur: cpm times 10^4,
\* ad_click_rate times 10^3, affiliate_conversion times 10^6.  Money before
\* rounding is in 1/10000 of a dollar, after rounding in cents.
estimated_monthly_views == 10000

\* round(x, 2).  An exact half cent goes by the binary value of the double,
\* which is not modelled (half-even stands in for it).
round2(x) ==
  LET q == x \div 100
      r == x % 100
  IN  IF r < 50 THEN q
      ELSE IF r > 50 THEN q + 1
      ELSE IF q % 2 = 0 THEN q ELSE q + 1

\* Mutant: the total is the sum of the two rounded revenues.
_calculate_revenue_prediction_SumOfRounded(content_record, country_data) ==
  LET cpm == Get(country_data, "cpm", 50000)
      click_rate == Get(country_data, "ad_click_rate", 50)
      conversion_rate == Get(country_data, "affiliate_conversion", 20000)
      ad_revenue == (estimated_monthly_views * cpm) \div 1000
      affiliate_clicks == (estimated_monthly_views * click_rate) \div 1000
      affiliate_revenue == (affiliate_clicks * conversion_rate * 50) \div 100
  IN  [monthly_ad_revenue |-> round2(ad_revenue),
       monthly_affiliate_revenue |-> round2(affiliate_revenue),
       total_monthly_revenue |-> round2(ad_revenue) + round2(affiliate_revenue),
       estimated_views |-> estimated_monthly_views,
       cpm |-> cpm]

\* Lines 221-251; updated_at, the time of the call, is left out.  With
\* numbers for values nothing in the try block raises.
_calculate_revenue_prediction(content_record, country_data) ==
  LET cpm == Get(country_data, "cpm", 50000)
      click_rate == Get(country_data, "ad_click_rate", 50)
      conversion_rate == Get(country_data, "affiliate_conversion", 20000)
      ad_revenue == (estimated_monthly_views * cpm) \div 1000
      affiliate_clicks == (estimated_monthly_views * click_rate) \div 1000
      affiliate_revenue == (affiliate_clicks * conversion_rate * 50) \div 100
      total_revenue == ad_revenue + affiliate_revenue
  IN  [monthly_ad_revenue |-> round2(ad_revenue),
       monthly_affiliate_revenue |-> round2(affiliate_revenue),
       total_monthly_revenue |-> round2(total_revenue),
       estimated_views |-> estimated_monthly_views,
       cpm |-> cpm]

\* ------------------------------ revenue_optimizer.py, the keyword strategy
\* A keyword is the sequence of its characters; a character outside ASCII is
\* named by its code point.  premium_keywords of the table entries.
premium_keywords ==
  [c \in Range(RevenueCountries) |->
    CASE c = "USA" ->
           <<<<"i", "n", "s", "u", "r", "a", "n", "c", "e">>,
             <<"m", "o", "r", "t", "g", "a", "g", "e">>,
             <<"c", "r", "e", "d", "i", "t", " ", "c", "a", "r", "d">>,
             <<"i", "n", "v", "e", "s", "t", "m", "e", "n", "t">>,
             <<"l", "a", "w", "y", "e", "r">>>>
      [] c = "Germany" ->
           <<<<"v", "e", "r", "s", "i", "c", "h", "e", "r", "u", "n", "g">>,
             <<"k", "r", "e", "d", "i", "t">>,
             <<"a", "u", "t", "o">>,
             <<"t", "e", "c", "h", "n", "o", "l", "o", "g", "i", "e">>,
             <<"i", "n", "v", "e", "s", "t", "i", "t", "i", "o", "n">>>>
      [] c = "UK" ->
           <<<<"m", "o", "r", "t", "g", "a", "g", "e">>,
             <<"i", "n", "s", "u", "r", "a", "n", "c", "e">>,
             <<"i", "n", "v", "e", "s", "t", "m", "e", "n", "t">>,
             <<"p", "r", "o", "p", "e", "r", "t", "y">>,
             <<"c", "r", "e", "d", "i", "t">>>>
      [] c = "Canada" ->
           <<<<"i", "n", "s", "u", "r", "a", "n", "c", "e">>,
             <<"m", "o", "r", "t", "g", "a", "g", "e">>,
             <<"i", "n", "v", "e", "s", "t", "m", "e", "n", "t">>,
             <<"o", "u", "t", "d", "o", "o", "r">>,
             <<"w", "i", "n", "t", "e", "r">>>>
      [] c = "Singapore" ->
           <<<<"p", "r", "o", "p", "e", "r", "t", "y">>,
             <<"i", "n", "v", "e", "s", "t", "m", "e", "n", "t">>,
             <<"l", "u", "x", "u", "r", "y">>,
             <<"f", "i", "n", "a", "n", "c", "e">>,
             <<"p", "r", "e", "m", "i", "u", "m">>>>
      [] c = "Australia" ->
           <<<<"p", "r", "o", "p", "e", "r", "t", "y">>,
             <<"i", "n", "v", "e", "s", "t", "m", "e", "n", "t">>,
             <<"o", "u", "t", "d", "o", "o", "r">>,
             <<"i", "n", "s", "u", "r", "a", "n", "c", "e">>,
             <<"f", "i", "n", "a", "n", "c", "e">>>>
      [] c = "Japan" ->
           <<<<"U+4FDD", "U+967A">>,
             <<"U+6295", "U+8CC7">>,
             <<"U+6280", "U+8853">>,
             <<"U+7F8E", "U+5BB9">>,
             <<"U+30D5", "U+30A1", "U+30C3", "U+30B7", "U+30E7", "U+30F3">>>>
      [] c = "Korea" ->
           <<<<"U+BCF4", "U+D5D8">>,
             <<"U+D22C", "U+C790">>,
             <<"U+BDF0", "U+D2F0">>,
             <<"U+AE30", "U+C220">>,
             <<"U+D328", "U+C158">>>>]

\* ad_networks of the table entries.
ad_networks ==
  [c \in Range(RevenueCountries) |->
    CASE c = "USA" -> <<"Google AdSense", "Media.net", "Amazon Associates">>
      [] c = "Germany" -> <<"Google AdSense", "Zanox", "Amazon Associates">>
      [] c = "UK" -> <<"Google AdSense", "Amazon Associates", "Commission Junction">>
      [] c = "Canada" -> <<"Google AdSense", "Amazon Associates", "ShareASale">>
      [] c = "Singapore" -> <<"Google AdSense", "Amazon Associates", "Commission Factory">>
      [] c = "Australia" -> <<"Google AdSense", "Amazon Associates", "Commission Factory">>
      [] c = "Japan" -> <<"Google AdSense", "Amazon Associates", "A8.net">>
      [] c = "Korea" -> <<"Google AdSense", "Coupang Partners", "Amazon Associates">>]

\* any(pk.lower() in keyword.lower() for pk in premium_keywords)
\* Mutant: the comparison without lower().
is_premium_CaseSensitive(keyword, premium) ==
  \E i \in 1..Len(premium) : Contains(keyword, premium[i])

is_premium(keyword, premium) ==
  \E i \in 1..Len(premium) : Contains(lower(keyword), lower(premium[i]))

\* ad_networks[:2]
FirstTwo(s) == SubSeq(s, 1, IF Len(s) < 2 THEN Len(s) ELSE 2)

\* optimize_keyword_strategy(keyword, target_countries): the dict of the
\* strategies, one per country named.  country_revenue_data.get(country, {})
\* is the empty dict for a country without an entry, and then the defaults
\* [] , 5 and [] are used.  expected_competition is times 10, as in the
\* table; revenue_multiplier is times 10.
optimize_keyword_strategy(keyword, countries) ==
  [c \in Range(countries) |->
     LET known == c \in DOMAIN country_revenue_data
         is_premium_keyword ==
           is_premium(keyword, IF known THEN premium_keywords[c] ELSE <<>>)
     IN  [is_premium_keyword |-> is_premium_keyword,
          recommended_content_type |->
            IF is_premium_keyword THEN "comparison" ELSE "guide",
          monetization_level |-> IF is_premium_keyword THEN "maximum" ELSE "high",
          expected_competition |->
            IF known THEN country_revenue_data[c].competition ELSE 50,
          revenue_multiplier |-> IF is_premium_keyword THEN 15 ELSE 10,
          recommended_ad_networks |->
            FirstTwo(IF known THEN ad_networks[c] ELSE <<>>)]]

\* ------------------------------ revenue_optimizer.py, add_monetization
\* top_affiliate_categories of the table entries.
top_affiliate_categories ==
  [c \in Range(RevenueCountries) |->
    CASE c = "USA" -> <<"tech", "finance", "health", "insurance", "investment">>
      [] c = "Germany" -> <<"automotive", "tech", "finance", "insurance">>
      [] c = "UK" -> <<"finance", "property", "insurance", "tech">>
      [] c = "Canada" -> <<"finance", "outdoor", "tech", "insurance">>
      [] c = "Singapore" -> <<"luxury", "finance", "property", "tech">>
      [] c = "Australia" -> <<"outdoor", "property", "finance", "tech">>
      [] c = "Japan" -> <<"tech", "beauty", "fashion", "finance">>
      [] c = "Korea" -> <<"beauty", "tech", "fashion", "food">>]

\* The table entry of a country as the dict the literal builds: the key of
\* the cpm is "cmp" where the literal spells it so.  monthly_potential is
\* read by no function modelled here and is left out.
table_entry(country) ==
  LET data == country_revenue_data[country]
      cpm_key == IF data.has_cpm THEN "cpm" ELSE "cmp"
  IN  [k \in {cpm_key, "ad_click_rate", "affiliate_conversion", "purchasing_power",
              "market_size", "competition", "top_affiliate_categories",
              "ad_networks", "premium_keywords"} |->
         CASE k = cpm_key -> data.cpm
           [] k = "ad_click_rate" -> data.ad_click_rate
           [] k = "affiliate_conversion" -> data.affiliate_conversion
           [] k = "purchasing_power" -> data.purchasing_power
           [] k = "market_size" -> data.market_size
           [] k = "competition" -> data.competition
           [] k = "top_affiliate_categories" -> top_affiliate_categories[country]
           [] k = "ad_networks" -> ad_networks[country]
           [] k = "premium_keywords" -> premium_keywords[country]]

EmptyDict == [k \in {} |-> 0]

\* self.country_revenue_data.get(country, {})
country_data_of(country) ==
  IF country \in DOMAIN country_revenue_data THEN table_entry(country) ELSE EmptyDict

\* The numbers of a dict in the scale of the prediction: cpm times 10^4 and
\* affiliate_conversion times 10^6 where the table has them times 10 and
\* times 1000; ad_click_rate is times 1000 in both.
InPredictionScale(d) ==
  [k \in DOMAIN d |->
     IF k \in {"cpm", "affiliate_conversion"} THEN d[k] * 1000 ELSE d[k]]

\* spot["type"] raises KeyError for a spot without the key.
SpotRaises(spot) == "type" \notin DOMAIN spot

\* The body of the try of add_monetization for a record whose spots all have
\* a type: the copy of the record with its spots optimized, if it has any,
\* and with premium_keywords, recommended_ad_networks and revenue_prediction.
monetized_content(content_record, country_data) ==
  LET with_spots ==
        IF "monetization_spots" \in DOMAIN content_record
          THEN Put(content_record, "monetization_spots",
                   optimized_spots(content_record["monetization_spots"],
                                   country_data).optimized_spots)
          ELSE content_record
      with_keywords ==
        Put(with_spots, "premium_keywords", Get(country_data, "premium_keywords", <<>>))
      with_networks ==
        Put(with_keywords, "recommended_ad_networks",
            Get(country_data, "ad_networks", <<>>))
  IN  Put(with_networks, "revenue_prediction",
          _calculate_revenue_prediction(content_record, InPredictionScale(country_data)))

\* Mutant: the table indexed with the country, a KeyError for a country
\* without an entry, which the except turns into the record as it came.
RevenueOptimizer_add_monetization_KeyError(content_record, country) ==
  IF \/ country \notin DOMAIN country_revenue_data
     \/ /\ "monetization_spots" \in DOMAIN content_record
        /\ \E i \in 1..Len(content_record["monetization_spots"]) :
             SpotRaises(content_record["monetization_spots"][i])
    THEN [raised |-> FALSE, value |-> content_record]
    ELSE [raised |-> FALSE,
          value |-> monetized_content(content_record, country_data_of(country))]

\* RevenueOptimizer.add_monetization(content, country): an exception under
\* the try is caught and the record is returned as it came.
RevenueOptimizer_add_monetization(content_record, country) ==
  IF /\ "monetization_spots" \in DOMAIN content_record
     /\ \E i \in 1..Len(content_record["monetization_spots"]) :
          SpotRaises(content_record["monetization_spots"][i])
    THEN [raised |-> FALSE, value |-> content_record]
    ELSE [raised |-> FALSE,
          value |-> monetized_content(content_record, country_data_of(country))]

\* ------------------------------------------ the engines taken by themselves
\* A call of one function of the ranking engine or of the spot engine, with
\* arguments drawn from bounded sets; no run of the pipeline is going on.
MaxProfiles == 3
MaxRequested == 3
MaxLines == 2

RunIdle ==
  /\ keywords = <<>> /\ target_countries = <<>> /\ content_types = <<>>
  /\ auto_publish = FALSE /\ seo_optimization = FALSE
  /\ pc = "idle"
  /\ sorted_countries = <<>>
  /\ ci = 1 /\ ki = 1 /\ ti = 1
  /\ design_config = NoDesign
  /\ content = NoContent
  /\ total_generated = 0
  /\ run_result = "running"
  /\ failing_keywords = {}
  /\ units = <<>>
  /\ saved = <<>>
  /\ deployed_sites = {}
  /\ revenue_data = [c \in {} |-> 0]
  /\ other_run = NoRun

\* A call about to be made.  args_after: the arguments as the call leaves
\* them; again: the result of the function applied to its own result.
NewCall(op, a) ==
  [op |-> op, args |-> a, args_after |-> a, step |-> 0,
   result |-> <<>>, again |-> <<>>]

\* Entries for tables other than the built-in one.  The first two differ and
\* have the same score (7850); the third scores higher, the fourth lower.
ProfilePool ==
  {[has_cpm |-> TRUE, cpm |-> 100, ad_click_rate |-> 50, affiliate_conversion |-> 30,
    purchasing_power |-> 80, market_size |-> 80, competition |-> 50],
   [has_cpm |-> TRUE, cpm |-> 90, ad_click_rate |-> 50, affiliate_conversion |-> 30,
    purchasing_power |-> 92, market_size |-> 80, competition |-> 50],
   [has_cpm |-> TRUE, cpm |-> 120, ad_click_rate |-> 50, affiliate_conversion |-> 30,
    purchasing_power |-> 80, market_size |-> 80, competition |-> 50],
   [has_cpm |-> TRUE, cpm |-> 50, ad_click_rate |-> 50, affiliate_conversion |-> 30,
    purchasing_power |-> 80, market_size |-> 80, competition |-> 50]}

\* The ranking never looks into a country's name, so the keys of a table
\* are the first names of this list, in this order.
TableNames == <<"A", "B", "C", "D", "E">>

BuiltinTable == [keys |-> RevenueCountries, data |-> country_revenue_data]

Tables ==
  {BuiltinTable} \cup
  UNION {{[keys |-> SubSeq(TableNames, 1, n), data |-> d] :
            d \in [{TableNames[i] : i \in 1..n} -> ProfilePool]} :
         n \in 0..MaxProfiles}

\* Requested lists: ranked countries in any order, repeated or not, and a
\* country without a profile.
RequestPool == {"Korea", "USA", "Australia", "Zed"}

RankCalls == {NewCall("rank", t) : t \in Tables}

SortCalls == {NewCall("sort", cs) : cs \in SeqsUpTo(RequestPool, MaxRequested)}

\* Pieces of lines: the heading marker, a product word with a capital, the
\* two letters of a comparison word with a capital, a neutral letter.
ChunkPool == {<<>>, <<"#", "#">>, <<"T", "o", "o", "l">>, <<"V">>, <<"s">>, <<"x">>}

\* A heading that is a product mention and a comparison at once.
FullLine == <<"#", "#", " ", "T", "o", "o", "l", " ", "V", "S", " ", "x">>

LinePool == {a \o b : a \in ChunkPool, b \in ChunkPool} \cup {FullLine}

\* The body of the example of the specification's testable properties.
ExampleBody ==
  <<<<"#", " ", "T", "i", "t", "l", "e">>,
    <<"#", "#", " ", "B", "e", "s", "t", " ", "t", "o", "o", "l", " ", "o", "p", "t", "i", "o", "n", "s">>,
    <<"T", "h", "i", "s", " ", "i", "s", " ", "a", " ", "g", "r", "e", "a", "t", " ", "p", "r", "o", "d", "u", "c", "t", " ", "f", "o", "r", " ", "y", "o", "u">>>>

Bodies == SeqsUpTo(LinePool, MaxLines) \cup {ExampleBody}

\* "\n".join(lines): the text whose lines these are.
RECURSIVE Join(_)
Join(lines) ==
  IF Len(lines) = 0 THEN <<>>
  ELSE IF Len(lines) = 1 THEN lines[1]
  ELSE lines[1] \o <<"\n">> \o Join(Tail(lines))

\* Profiles as add_monetization passes them: a subset of the keys cpm,
\* top_affiliate_categories and affiliate_conversion ({} for a country
\* without an entry).  An absent key is the empty option.
CpmOptions == {<<>>, <<50>>, <<70>>, <<71>>, <<80>>, <<81>>, <<100>>, <<101>>}

CategoryOptions ==
  {<<>>, <<(<<>>)>>, <<(<<"tech">>)>>, <<(<<"tech", "finance", "health">>)>>,
   <<(<<"tech", "finance", "health", "insurance", "investment">>)>>}

ConversionOptions == {<<>>, <<35>>}

Profile(cpm, categories, conversion) ==
  [k \in (IF cpm = <<>> THEN {} ELSE {"cpm"})
         \cup (IF categories = <<>> THEN {} ELSE {"top_affiliate_categories"})
         \cup (IF conversion = <<>> THEN {} ELSE {"affiliate_conversion"}) |->
     CASE k = "cpm" -> cpm[1]
       [] k = "top_affiliate_categories" -> categories[1]
       [] k = "affiliate_conversion" -> conversion[1]]

ProfileDicts ==
  {Profile(c, t, a) : c \in CpmOptions, t \in CategoryOptions, a \in ConversionOptions}

\* The spots of a content record are those detect found in its text.
SpotLists == {_identify_monetization_opportunities(Join(b)) : b \in Bodies}

OptimizeCalls ==
  {NewCall("optimize", [spots |-> ss, country_data |-> d]) :
     ss \in SpotLists, d \in ProfileDicts}

\* Profiles for the prediction, in its scale: cpm 10, 1.2344 and 1.2346,
\* ad_click_rate 0.05 and 0.051, affiliate_conversion 0.02, 0.020008 and
\* 0.020012, each key present or not.
PredictionProfiles ==
  {[k \in (IF c = <<>> THEN {} ELSE {"cpm"})
          \cup (IF r = <<>> THEN {} ELSE {"ad_click_rate"})
          \cup (IF a = <<>> THEN {} ELSE {"affiliate_conversion"}) |->
      CASE k = "cpm" -> c[1]
        [] k = "ad_click_rate" -> r[1]
        [] k = "affiliate_conversion" -> a[1]] :
     c \in {<<>>, <<100000>>, <<12344>>, <<12346>>},
     r \in {<<>>, <<50>>, <<51>>},
     a \in {<<>>, <<20000>>, <<20008>>, <<20012>>}}

\* No revenue of the profile is an exact half cent before rounding.
NoHalfCent(d) ==
  LET ad == 10 * Get(d, "cpm", 50000)
      aff == 5 * Get(d, "ad_click_rate", 50) * Get(d, "affiliate_conversion", 20000)
  IN  ad % 100 # 50 /\ aff % 100 # 50 /\ (ad + aff) % 100 # 50

PredictCalls ==
  {NewCall("predict", d) : d \in {p \in PredictionProfiles : NoHalfCent(p)}}

\* Keywords for the strategy: a premium word of the USA in capitals, one of
\* Germany capitalised, the beginning of a premium word only, no premium
\* word, a premium phrase broken by a second blank, and the phrase itself.
StrategyKeywords ==
  {<<"B", "e", "s", "t", " ", "I", "N", "S", "U", "R", "A", "N", "C", "E">>,
   <<"A", "u", "t", "o">>,
   <<"i", "n", "s", "u", "r">>,
   <<"x">>,
   <<"C", "r", "e", "d", "i", "t", " ", " ", "C", "a", "r", "d">>,
   <<"m", "y", " ", "c", "r", "e", "d", "i", "t", " ", "c", "a", "r", "d">>}

StrategyCountries == {"USA", "Germany", "Zed"}

StrategyCalls ==
  {NewCall("strategy", [keyword |-> k, target_countries |-> cs]) :
     k \in StrategyKeywords, cs \in SeqsUpTo(StrategyCountries, MaxCountries)}

\* Content records for add_monetization: without spots, with the spots
\* detect found in a text, and with a spot that has no type.
SpotsWithoutType == <<[position |-> 0]>>

ContentRecords ==
  {[keyword |-> "k"]}
  \cup {[keyword |-> "k", monetization_spots |-> ss] :
          ss \in SpotLists \cup {SpotsWithoutType}}

MonetizeCountries == Range(RevenueCountries) \cup {"Zed"}

MonetizeCalls ==
  {NewCall("monetize", [content |-> r, country |-> c]) :
     r \in ContentRecords, c \in MonetizeCountries}

\* Calls of update_content_metrics as the run makes it at its end: the
\* tracker's data before, the run's total_generated, and the countries the
\* run went through, none twice.
MetricsCalls ==
  {NewCall("metrics", [revenue_data |-> d, content_count |-> n, countries |-> cs]) :
     d \in {EmptyDict, [c \in {"Japan"} |-> 1]},
     n \in 0..(MaxKeywords * MaxTypes),
     cs \in {q \in SeqsUpTo(CountryPool \ {"Zed"}, MaxCountries) : Cardinality(Range(q)) = Len(q)}}

\* Texts for the content records: a title line, then up to MaxLines lines:
\* empty, a heading with a product word and a comparison, a product word,
\* a heading.
TemplateLines ==
  {<<>>, FullLine, <<"T", "o", "o", "l">>, <<"#", "#", " ", "x">>}

TitleLine == <<"#", " ", "T", "i", "t", "l", "e">>

TemplateTexts == {Join(<<TitleLine>> \o b) : b \in SeqsUpTo(TemplateLines, MaxLines)}

SimulateCalls == {NewCall("simulate", t) : t \in TemplateTexts}

ParseCalls == {NewCall("parse", t) : t \in TemplateTexts}

DetectCalls == {NewCall("detect", [lines |-> b, text |-> Join(b)]) : b \in Bodies}

\* _rank_countries_by_revenue() on an optimizer holding the table.
CallRank ==
  /\ call.op = "rank" /\ call.step = 0
  /\ call' = [call EXCEPT !.step = 1,
                          !.result = rank_by_revenue(call.args.keys, call.args.data)]
  /\ UNCHANGED <<run_vars, other_run>>

\* sort_countries_by_revenue(countries) on the optimizer of the program.
CallSort ==
  /\ call.op = "sort" /\ call.step = 0
  /\ call' = [call EXCEPT !.step = 1,
                          !.result = sort_countries_by_revenue(call.args)]
  /\ UNCHANGED <<run_vars, other_run>>

\* _identify_monetization_opportunities(content) on the text.
CallDetect ==
  /\ call.op = "detect" /\ call.step = 0
  /\ call' = [call EXCEPT !.step = 1,
                          !.result = _identify_monetization_opportunities(call.args.text)]
  /\ UNCHANGED <<run_vars, other_run>>

\* The loop of add_monetization over the spots of a content record.
CallOptimize ==
  /\ call.op = "optimize" /\ call.step = 0
  /\ LET r == optimized_spots(call.args.spots, call.args.country_data)
     IN  call' = [call EXCEPT !.step = 1,
                              !.result = r.optimized_spots,
                              !.args_after = [call.args EXCEPT !.spots = r.spots]]
  /\ UNCHANGED <<run_vars, other_run>>

\* The same loop over the list it returned, with the same profile.
CallOptimizeAgain ==
  /\ call.op = "optimize" /\ call.step = 1
  /\ LET r == optimized_spots(call.result, call.args.country_data)
     IN  call' = [call EXCEPT !.step = 2, !.again = r.optimized_spots]
  /\ UNCHANGED <<run_vars, other_run>>

\* _calculate_revenue_prediction(content, country_data); the content is
\* not looked at.
CallPredict ==
  /\ call.op = "predict" /\ call.step = 0
  /\ call' = [call EXCEPT !.step = 1,
                          !.result = _calculate_revenue_prediction(<<>>, call.args)]
  /\ UNCHANGED <<run_vars, other_run>>

\* optimize_keyword_strategy(keyword, target_countries)
CallStrategy ==
  /\ call.op = "strategy" /\ call.step = 0
  /\ call' = [call EXCEPT !.step = 1,
                          !.result = optimize_keyword_strategy(call.args.keyword,
                                                               call.args.target_countries)]
  /\ UNCHANGED <<run_vars, other_run>>

\* add_monetization(content, country)
CallMonetize ==
  /\ call.op = "monetize" /\ call.step = 0
  /\ call' = [call EXCEPT !.step = 1,
                          !.result = RevenueOptimizer_add_monetization(call.args.content,
                                                                       call.args.country)]
  /\ UNCHANGED <<run_vars, other_run>>

\* revenue_tracker.update_content_metrics(content_count, countries)
CallMetrics ==
  /\ call.op = "metrics" /\ call.step = 0
  /\ call' = [call EXCEPT !.step = 1,
                          !.result = update_content_metrics(call.args.revenue_data,
                                                            call.args.content_count,
                                                            call.args.countries)]
  /\ UNCHANGED <<run_vars, other_run>>

\* _generate_simulation_content(keyword, country, profile), the template
\* filled in.
CallSimulate ==
  /\ call.op = "simulate" /\ call.step = 0
  /\ call' = [call EXCEPT !.step = 1,
                          !.result = _generate_simulation_content(call.args)]
  /\ UNCHANGED <<run_vars, other_run>>

\* _parse_generated_content(content_text, profile)
CallParse ==
  /\ call.op = "parse" /\ call.step = 0
  /\ call' = [call EXCEPT !.step = 1,
                          !.result = _parse_generated_content(call.args)]
  /\ UNCHANGED <<run_vars, other_run>>

CallsInit ==
  /\ RunIdle
  /\ \/ call \in RankCalls
     \/ call \in SortCalls
     \/ call \in DetectCalls
     \/ call \in OptimizeCalls
     \/ call \in PredictCalls
     \/ call \in StrategyCalls
     \/ call \in MonetizeCalls
     \/ call \in MetricsCalls
     \/ call \in SimulateCalls
     \/ call \in ParseCalls

CallsNext ==
  \/ CallRank \/ CallSort \/ CallDetect \/ CallOptimize \/ CallOptimizeAgain
  \/ CallPredict \/ CallStrategy \/ CallMonetize \/ CallMetrics
  \/ CallSimulate \/ CallParse

SpecCalls == CallsInit /\ [][CallsNext]_vars

\* ------------------------------------------------------------ properties
\* Countries that have a profile in the revenue table.
ProfileCountries == Range(RevenueCountries)

\* The requested countries that have a profile.
RequestedWithProfile == Range(target_countries) \cap ProfileCountries

\* keywords x content_types in loop order, with multiplicity.
CrossSeq(kws, cts) ==
  [n \in 1..(Len(kws) * Len(cts)) |->
     <<kws[((n - 1) \div Len(cts)) + 1], cts[((n - 1) % Len(cts)) + 1]>>]

ExpectedCount ==
  Cardinality(RequestedWithProfile) * Len(keywords) * Len(content_types)

IsPrefix(a, b) ==
  /\ Len(a) <= Len(b)
  /\ \A i \in 1..Len(a) : a[i] = b[i]

UnitFailed(u) == u.error # "none"

UnitEnded(u) == u.outcome \in {"counted", "aborted"}

UnitsOf(c) ==
  LET OfCountry(u) == u.country = c
  IN  SelectSeq(units, OfCountry)

Pairs(us) == [i \in 1..Len(us) |-> <<us[i].keyword, us[i].content_type>>]

RankIndex(c) == CHOOSE i \in 1..Len(top_countries) : top_countries[i] = c

\* Every unit is aborted at render-design: the run never gets to persist,
\* publish, the count or the delay, and the counter and the store stay empty.
NoUnitPassesRender ==
  /\ pc \notin {"persist", "publish", "count", "sleep"}
  /\ total_generated = 0 /\ saved = <<>> /\ deployed_sites = {}
  /\ \A i \in DOMAIN units : units[i].outcome # "counted" /\ ~units[i].slept

\* C1: when a stage of a unit fails, only that unit is aborted: the units
\* completed before stay counted and persisted (the counter and the store
\* hold exactly the completed units), the failed unit ends as aborted, and
\* while units remain the run goes on to the next pair or the next country.
C1_PerUnitIsolation ==
  /\ total_generated = Cardinality({i \in DOMAIN units : units[i].outcome = "counted"})
  /\ Len(saved) = Cardinality({i \in DOMAIN units : units[i].store = "saved"})
  /\ \A i \in DOMAIN units :
       UnitFailed(units[i]) =>
         /\ i < Len(units) => units[i].outcome = "aborted"
         /\ (i = Len(units) /\ Len(units) < ExpectedCount) =>
              /\ pc \in {"unit_except", "generate", "country"}
              /\ run_result = "running"

\* C1 witness: the run ended after a unit failed, a later pair of the same
\* country was attempted and a unit of a later country was attempted.
C1_Witness ==
  /\ pc = "done"
  /\ \E i, j, k \in DOMAIN units :
       /\ i < j /\ j < k
       /\ UnitFailed(units[i])
       /\ units[j].country = units[i].country
       /\ units[k].country # units[i].country

\* C4: no failure raised inside a run stops it: the outer handler never
\* runs, and a run that has ended has attempted every unit of every ranked
\* country and has reported its metrics for each of them.
C4_NoFailureStopsRun ==
  /\ run_result \in {"running", "returned"}
  /\ pc # "outer_except"
  /\ pc = "done" =>
       /\ \A c \in RequestedWithProfile :
            /\ Len(UnitsOf(c)) = Len(keywords) * Len(content_types)
            /\ c \in DOMAIN revenue_data
       /\ \A i \in DOMAIN units : UnitEnded(units[i])

\* C4 witness: a run returned after failures were raised in units of two
\* different countries.
C4_Witness ==
  /\ pc = "done"
  /\ run_result = "returned"
  /\ \E i, j \in DOMAIN units :
       /\ units[i].country # units[j].country
       /\ UnitFailed(units[i]) /\ UnitFailed(units[j])

\* C2 as claimed: at the end of a run a unit whose Generator call failed
\* is not counted and has nothing persisted or published, and every unit
\* after it whose own generation and persistence did not fail has completed
\* and is counted.
C2_Claim ==
  pc = "done" =>
    \A i \in DOMAIN units :
      ~units[i].gen_ok =>
        /\ units[i].outcome # "counted"
        /\ units[i].store = "none" /\ units[i].publish = "none"
        /\ \A j \in DOMAIN units :
             (i < j /\ units[j].gen_ok /\ units[j].store # "failed") =>
               units[j].outcome = "counted"

Chain(seo, publish) ==
  <<"generate">> \o (IF seo THEN <<"seo">> ELSE <<>>)
  \o <<"monetize", "render", "persist">>
  \o (IF publish THEN <<"publish">> ELSE <<>>) \o <<"count", "sleep">>

\* C5: the stages a unit has run are an initial part of the chain generate,
\* format-seo (when seo_optimization), monetize, render-design, persist,
\* publish (when auto_publish), count; the stage the run is about to start
\* is the next one of the chain; a counted unit has run the whole chain.
C5_StageOrder ==
  /\ \A i \in DOMAIN units :
       /\ IsPrefix(units[i].stages, Chain(seo_optimization, auto_publish))
       /\ units[i].outcome = "counted" =>
            \E n \in DOMAIN units[i].stages :
              /\ units[i].stages[n] = "count"
              /\ n = Len(Chain(seo_optimization, auto_publish)) - 1
  /\ (pc \in Stages \ {"generate"}) =>
       /\ units # <<>>
       /\ Len(Last(units).stages) < Len(Chain(seo_optimization, auto_publish))
       /\ pc = Chain(seo_optimization, auto_publish)[Len(Last(units).stages) + 1]

\* C5 witness: with seo_optimization set a unit has run generate,
\* format-seo, monetize and render-design, in this order.
C5_Witness ==
  /\ seo_optimization
  /\ \E i \in DOMAIN units :
       units[i].stages = <<"generate", "seo", "monetize", "render">>

\* C6 as claimed: a run in which neither the generator, the store nor the
\* publisher failed ends with total_generated = (distinct requested
\* countries with a profile) x (keywords) x (content types).
C6_Claim ==
  ( /\ pc = "done"
    /\ \A i \in DOMAIN units :
         /\ units[i].gen_ok
         /\ units[i].store # "failed"
         /\ units[i].publish # "failed" )
  => total_generated = ExpectedCount

\* C7: a run whose requested countries all lack a profile starts no unit:
\* no generator, store or publisher call, total_generated 0, and the run
\* is never in a handler.
C7_NoProfileNoUnit ==
  RequestedWithProfile = {} =>
    /\ units = <<>>
    /\ saved = <<>>
    /\ deployed_sites = {}
    /\ total_generated = 0
    /\ pc \in {"start", "country", "done"}
    /\ run_result \in {"running", "returned"}

\* C7 witness: a run with keywords, content types and only countries
\* without a profile has returned.
C7_Witness ==
  /\ pc = "done"
  /\ run_result = "returned"
  /\ target_countries # <<>>
  /\ RequestedWithProfile = {}
  /\ keywords # <<>>
  /\ content_types # <<>>

\* C8: for each processed country the pairs attempted are an initial part
\* of keywords x content_types taken with multiplicity, and all of it when
\* the run has ended; with no keyword or no content type no unit is
\* attempted, total_generated is 0 and the run is never in a handler.
C8_UnitsAreCrossProduct ==
  /\ \A i \in DOMAIN units : units[i].country \in RequestedWithProfile
  /\ \A c \in RequestedWithProfile :
       IsPrefix(Pairs(UnitsOf(c)), CrossSeq(keywords, content_types))
  /\ pc = "done" =>
       \A c \in RequestedWithProfile :
         Pairs(UnitsOf(c)) = CrossSeq(keywords, content_types)
  /\ (keywords = <<>> \/ content_types = <<>>) =>
       /\ units = <<>>
       /\ total_generated = 0
       /\ pc \in {"start", "country", "done"}
       /\ run_result \in {"running", "returned"}

\* C8 witness: a run has ended in which one (keyword, content_type) pair
\* of the input was attempted twice for the same country.
C8_Witness ==
  /\ pc = "done"
  /\ \E i, j \in DOMAIN units :
       /\ i < j
       /\ units[i].country = units[j].country
       /\ units[i].keyword = units[j].keyword
       /\ units[i].content_type = units[j].content_type

\* The units of a run in processing order: countries by rank, and for each
\* the keywords in caller order with the content types in caller order.
RECURSIVE RunOrder(_)
RunOrder(cs) ==
  IF cs = <<>> THEN <<>>
  ELSE LET cross == CrossSeq(keywords, content_types)
           mine == IF Head(cs) \in Range(target_countries)
                     THEN [n \in 1..Len(cross) |-> <<Head(cs), cross[n][1], cross[n][2]>>]
                     ELSE <<>>
       IN  mine \o RunOrder(Tail(cs))

Attempted ==
  [i \in 1..Len(units) |-> <<units[i].country, units[i].keyword, units[i].content_type>>]

\* C9: units are started one at a time in the order countries by rank,
\* keywords in caller order, content types in caller order; when a unit is
\* about to start or has started, every unit before it has ended, counted
\* (after persist and, when auto_publish, publish) or aborted.
C9_SequentialOrder ==
  /\ IsPrefix(Attempted, RunOrder(top_countries))
  /\ \A i \in DOMAIN units :
       /\ i < Len(units) => UnitEnded(units[i])
       /\ units[i].outcome = "counted" =>
            /\ "persist" \in Range(units[i].stages)
            /\ auto_publish => "publish" \in Range(units[i].stages)
  /\ (pc = "generate" /\ units # <<>>) => UnitEnded(Last(units))

\* C9 witness: a run over two countries requested against their rank, two
\* keywords and two content types has ended with all eight units started.
C9_Witness ==
  /\ pc = "done"
  /\ target_countries = <<"Japan", "UK">>
  /\ keywords = <<"k1", "k2">>
  /\ content_types = <<"guide", "review">>
  /\ Len(units) = 8

\* C10 as claimed: between two consecutive units of the same country the
\* delay of asyncio.sleep(1) is observed after the first has finished.
C10_Claim ==
  \A i \in DOMAIN units :
    (i < Len(units) /\ units[i].country = units[i + 1].country) => units[i].slept

\* ------------------------------------------- properties of the engines
Returned(op) == call.op = op /\ call.step >= 1

NoRepeats(s) == \A i, j \in 1..Len(s) : s[i] = s[j] => i = j

IndexOf(s, x) == CHOOSE i \in 1..Len(s) : s[i] = x

\* C11: sort_countries_by_revenue returns exactly the countries that are
\* both ranked and requested, each once and in the order of the ranking,
\* whatever the order and the repetitions of the request; a requested
\* country without a profile is left out, nothing is raised.
C11_FilterAndOrder ==
  Returned("sort") =>
    /\ Range(call.result) = Range(call.args) \cap Range(top_countries)
    /\ Range(call.result) \subseteq DOMAIN country_revenue_data
    /\ NoRepeats(call.result)
    /\ \A i, j \in 1..Len(call.result) :
          i < j => IndexOf(top_countries, call.result[i])
                     < IndexOf(top_countries, call.result[j])

\* C11 witness: a request that names the lower ranked country first and a
\* country without a profile comes back in ranking order without it.
C11_Witness ==
  /\ Returned("sort")
  /\ call.args = <<"Korea", "Zed", "USA">>
  /\ call.result = <<"USA", "Korea">>

\* The score of the formula computed from the cpm the entry records.
ProfileScore(data) ==
  data.cpm * 30 + data.purchasing_power * 25 + data.market_size * 20
  + (100 - data.competition) * 15 + data.ad_click_rate * 10

\* C12: rank returns every country of the table once, in non-increasing
\* order of the score cpm*0.30 + purchasing_power*0.25 + market_size*0.20
\* + (10 - competition)*0.15 + ad_click_rate*100*0.10 of its entry's
\* values; the entry of the USA scores 9.15.
C12_Claim ==
  Returned("rank") =>
    LET t == call.args
        r == call.result
    IN  /\ Len(r) = Len(t.keys)
        /\ Range(r) = Range(t.keys)
        /\ \A i, j \in 1..Len(r) :
              i < j => ProfileScore(t.data[r[i]]) >= ProfileScore(t.data[r[j]])
        /\ t = BuiltinTable => ProfileScore(t.data["USA"]) = 9150

\* On a table whose entries all spell the key cpm the ranking is a
\* permutation of the keys in non-increasing order of that score.
RankFollowsFormulaWhereCpmPresent ==
  Returned("rank") /\ (\A c \in Range(call.args.keys) : call.args.data[c].has_cpm) =>
    LET t == call.args
        r == call.result
    IN  /\ Len(r) = Len(t.keys)
        /\ Range(r) = Range(t.keys)
        /\ \A i, j \in 1..Len(r) :
              i < j => ProfileScore(t.data[r[i]]) >= ProfileScore(t.data[r[j]])

\* C13: countries with equal scores stand in the ranking in the order in
\* which the table lists them.
C13_TiesKeepTableOrder ==
  Returned("rank") =>
    LET t == call.args
        r == call.result
    IN  \A i, j \in 1..Len(t.keys) :
          (i < j /\ revenue_score(t.data[t.keys[i]]) = revenue_score(t.data[t.keys[j]]))
            => IndexOf(r, t.keys[i]) < IndexOf(r, t.keys[j])

\* C13 witness: two different entries with the same score, listed before
\* an entry with a higher score, come after it in the order of the table.
C13_Witness ==
  /\ Returned("rank")
  /\ Len(call.args.keys) = 3
  /\ LET d == call.args.data
     IN  /\ d["A"] # d["B"]
         /\ revenue_score(d["A"]) = revenue_score(d["B"])
         /\ revenue_score(d["C"]) > revenue_score(d["A"])
  /\ call.result = <<"C", "A", "B">>

TypesAndPositions(spots) ==
  [k \in 1..Len(spots) |-> <<spots[k].type, spots[k].position>>]

\* C14, as stated: on the example body detect yields exactly two spots, a
\* display_ad at index 1 and an affiliate_link at index 2, and no spot at
\* index 0.
C14_Claim ==
  (Returned("detect") /\ call.args.lines = ExampleBody) =>
    /\ Len(call.result) = 2
    /\ Range(TypesAndPositions(call.result))
         = {<<"display_ad", 1>>, <<"affiliate_link", 2>>}

\* C14, amended: on the example body detect yields exactly three spots, in
\* this order: an affiliate_link at index 1 (the heading contains "tool"
\* and "option"), a display_ad at index 1 and an affiliate_link at index
\* 2; no spot at index 0.
C14_ExampleSpots ==
  (Returned("detect") /\ call.args.lines = ExampleBody) =>
    TypesAndPositions(call.result)
      = <<(<<"affiliate_link", 1>>), (<<"display_ad", 1>>), (<<"affiliate_link", 2>>)>>

\* C14 witness: detect has returned on the example body, with a spot for
\* the product words of the heading.
C14_Witness ==
  /\ Returned("detect")
  /\ call.args.lines = ExampleBody
  /\ \E k \in 1..Len(call.result) :
       call.result[k].type = "affiliate_link" /\ call.result[k].position = 1

SpotCount(spots, type, i) ==
  Cardinality({k \in 1..Len(spots) : spots[k].type = type /\ spots[k].position = i})

TypeOrder(type) ==
  CASE type = "affiliate_link"   -> 1
    [] type = "display_ad"       -> 2
    [] type = "comparison_table" -> 3

\* C15: for every line index i, detect emits one affiliate_link iff the
\* lower-cased line contains a product word, one display_ad iff the line
\* starts with the sub-heading marker and i > 0, one comparison_table iff
\* the lower-cased line contains a comparison word, and nothing else; the
\* positions of the list never decrease, and the spots of one line come
\* in the order affiliate_link, display_ad, comparison_table.
C15_RulesPerLine ==
  Returned("detect") =>
    LET lines == call.args.lines
        r == call.result
        One(b) == IF b THEN 1 ELSE 0
    IN  /\ \A k \in 1..Len(r) :
              /\ r[k].position \in 0..(Len(lines) - 1)
              /\ r[k].type \in {"affiliate_link", "display_ad", "comparison_table"}
        /\ \A i \in 0..(Len(lines) - 1) :
              LET line == lines[i + 1]
              IN  /\ SpotCount(r, "affiliate_link", i)
                       = One(\E w \in ProductWords : Contains(lower(line), w))
                  /\ SpotCount(r, "display_ad", i)
                       = One(startswith(line, HeadingMarker) /\ i > 0)
                  /\ SpotCount(r, "comparison_table", i)
                       = One(\E w \in ComparisonWords : Contains(lower(line), w))
        /\ \A k \in 1..(Len(r) - 1) :
              \/ r[k].position < r[k + 1].position
              \/ /\ r[k].position = r[k + 1].position
                 /\ TypeOrder(r[k].type) < TypeOrder(r[k + 1].type)

\* C15 witness: a heading in the first line gets no display_ad, and a later
\* line that matches the three rules gets the three spots in order.
C15_Witness ==
  /\ Returned("detect")
  /\ Len(call.args.lines) = 2
  /\ startswith(call.args.lines[1], HeadingMarker)
  /\ call.args.lines[2] = FullLine
  /\ TypesAndPositions(call.result)
       = <<(<<"affiliate_link", 1>>), (<<"display_ad", 1>>), (<<"comparison_table", 1>>)>>

\* The cpm the profile records, if it records one.
HasCpm(d) == "cpm" \in DOMAIN d

\* C16: every display_ad spot gets ad_size/priority premium_banner/high
\* when the profile's cpm is above 10, standard_banner/medium when it is
\* above 7 and at most 10, text_ad/low otherwise; a spot of another type
\* gets neither ad_size nor priority.
C16_DisplayAdClasses ==
  Returned("optimize") =>
    LET d == call.args.country_data
        Class(size, priority) == <<size, priority>>
    IN  \A k \in 1..Len(call.result) :
          LET o == call.result[k]
          IN  IF call.args.spots[k].type = "display_ad"
                THEN /\ {"ad_size", "priority"} \subseteq DOMAIN o
                     /\ <<o["ad_size"], o["priority"]>> =
                          (IF HasCpm(d) /\ d["cpm"] > 100
                             THEN Class("premium_banner", "high")
                           ELSE IF HasCpm(d) /\ d["cpm"] > 70 /\ d["cpm"] <= 100
                             THEN Class("standard_banner", "medium")
                           ELSE Class("text_ad", "low"))
                ELSE {"ad_size", "priority"} \cap DOMAIN o = {}

\* C16 witness: with a cpm of exactly 10 a display_ad has become a
\* standard_banner while an affiliate_link of the same list has no ad_size.
C16_Witness ==
  /\ Returned("optimize")
  /\ HasCpm(call.args.country_data) /\ call.args.country_data["cpm"] = 100
  /\ \E k \in 1..Len(call.result) :
       /\ call.result[k]["type"] = "display_ad"
       /\ call.result[k]["ad_size"] = "standard_banner"
  /\ \E k \in 1..Len(call.result) :
       /\ call.result[k]["type"] = "affiliate_link"
       /\ "ad_size" \notin DOMAIN call.result[k]

\* C17: every spot, whatever its type, gets placement above_fold when the
\* profile's cpm is above 8 and within_content otherwise, so the spots of
\* one list all have the same placement.
C17_Placement ==
  Returned("optimize") =>
    LET d == call.args.country_data
    IN  \A k \in 1..Len(call.result) :
          /\ "placement" \in DOMAIN call.result[k]
          /\ call.result[k]["placement"] =
               (IF HasCpm(d) /\ d["cpm"] > 80 THEN "above_fold" ELSE "within_content")

\* C17 witness: with a cpm of exactly 8 spots of the three types are all
\* placed within the content.
C17_Witness ==
  /\ Returned("optimize")
  /\ HasCpm(call.args.country_data) /\ call.args.country_data["cpm"] = 80
  /\ {call.result[k]["type"] : k \in 1..Len(call.result)}
       = {"affiliate_link", "display_ad", "comparison_table"}
  /\ \A k \in 1..Len(call.result) : call.result[k]["placement"] = "within_content"

\* C18: every affiliate_link spot gets as recommended_categories the first
\* three entries, in order, of the profile's top_affiliate_categories (all
\* of them when they are fewer), and as conversion_rate the profile's
\* affiliate_conversion.
C18_AffiliateFields ==
  Returned("optimize") =>
    LET d == call.args.country_data
    IN  \A k \in 1..Len(call.result) :
          call.args.spots[k].type = "affiliate_link" =>
            LET o == call.result[k]
            IN  /\ {"recommended_categories", "conversion_rate"} \subseteq DOMAIN o
                /\ "top_affiliate_categories" \in DOMAIN d =>
                     LET top == d["top_affiliate_categories"]
                         rec == o["recommended_categories"]
                     IN  /\ Len(rec) = (IF Len(top) < 3 THEN Len(top) ELSE 3)
                         /\ \A i \in 1..Len(rec) : rec[i] = top[i]
                /\ "affiliate_conversion" \in DOMAIN d =>
                     o["conversion_rate"] = d["affiliate_conversion"]

\* C18 witness: of five categories an affiliate_link has got the first
\* three, and the conversion rate of the profile.
C18_Witness ==
  /\ Returned("optimize")
  /\ {"top_affiliate_categories", "affiliate_conversion"}
       \subseteq DOMAIN call.args.country_data
  /\ Len(call.args.country_data["top_affiliate_categories"]) = 5
  /\ \E k \in 1..Len(call.result) :
       /\ call.result[k]["type"] = "affiliate_link"
       /\ call.result[k]["recommended_categories"] = <<"tech", "finance", "health">>
       /\ call.result[k]["conversion_rate"] = 35

KeptFields == {"type", "position", "context", "revenue_potential"}

\* C19: the list returned is as long as the list given, its k-th spot has
\* the type, position, context and revenue_potential of the k-th spot
\* given, and the spots given are as they were before the call.
C19_FramePreserved ==
  Returned("optimize") =>
    /\ Len(call.result) = Len(call.args.spots)
    /\ \A k \in 1..Len(call.args.spots) :
         \A f \in KeptFields : call.result[k][f] = call.args.spots[k][f]
    /\ call.args_after = call.args

\* C19 witness: a list of several spots has been optimized and every spot
\* returned has fields the spot given does not have.
C19_Witness ==
  /\ Returned("optimize")
  /\ Len(call.args.spots) >= 2
  /\ Len(call.result) = Len(call.args.spots)
  /\ \A k \in 1..Len(call.result) :
       DOMAIN call.result[k] # DOMAIN call.args.spots[k]

\* C20: the spots obtained by optimizing the result once more with the
\* same profile are the spots of the result.
C20_Idempotent ==
  (call.op = "optimize" /\ call.step = 2) => call.again = call.result

\* C20 witness: the second application has run on a list with an
\* affiliate_link that recommends categories and a display_ad.
C20_Witness ==
  /\ call.op = "optimize" /\ call.step = 2
  /\ \E k \in 1..Len(call.again) :
       /\ call.again[k]["type"] = "affiliate_link"
       /\ Len(call.again[k]["recommended_categories"]) = 3
  /\ \E k \in 1..Len(call.again) : call.again[k]["type"] = "display_ad"

\* A rounded amount c, in cents, is the amount x, in 1/10000 of a dollar,
\* rounded to two decimals.
NearestCent(c, x) == c * 100 - x \in -49..49

\* C21: with views fixed at 10000 the prediction reports views*cpm/1000,
\* views*ad_click_rate*affiliate_conversion*50 and their sum, each rounded
\* to two decimals, and the views and the cpm it used; for cpm 10,
\* ad_click_rate 0.05 and affiliate_conversion 0.02 these are 100.00,
\* 500.00 and 600.00.
C21_PredictionFormula ==
  (Returned("predict")
     /\ DOMAIN call.args = {"cpm", "ad_click_rate", "affiliate_conversion"}) =>
    LET d == call.args
        r == call.result
        ad == 10 * d["cpm"]
        aff == 5 * d["ad_click_rate"] * d["affiliate_conversion"]
    IN  /\ NearestCent(r.monthly_ad_revenue, ad)
        /\ NearestCent(r.monthly_affiliate_revenue, aff)
        /\ NearestCent(r.total_monthly_revenue, ad + aff)
        /\ r.estimated_views = 10000
        /\ r.cpm = d["cpm"]
        /\ (d["cpm"] = 100000 /\ d["ad_click_rate"] = 50
              /\ d["affiliate_conversion"] = 20000) =>
             /\ r.monthly_ad_revenue = 10000
             /\ r.monthly_affiliate_revenue = 50000
             /\ r.total_monthly_revenue = 60000

\* C21 witness: a prediction whose two revenues are both rounded down and
\* whose total is rounded up (12.344 + 510.204 = 522.548).
C21_Witness ==
  /\ Returned("predict")
  /\ DOMAIN call.args = {"cpm", "ad_click_rate", "affiliate_conversion"}
  /\ call.args["cpm"] = 12344
  /\ call.result.monthly_ad_revenue = 1234
  /\ call.result.monthly_affiliate_revenue = 51020
  /\ call.result.total_monthly_revenue = 52255

\* Two characters that are the same but for the case of a letter.
SameLetter(a, b) ==
  a = b \/ \E j \in 1..26 : {a, b} = {UpperCase[j], LowerCase[j]}

\* word occurs in line, case ignored.
OccursIgnoringCase(word, line) ==
  \E k \in 0..(Len(line) - Len(word)) :
    \A i \in 1..Len(word) : SameLetter(line[k + i], word[i])

\* The premium keywords recorded for a country, none without a profile.
ListedPremium(c) ==
  IF c \in Range(RevenueCountries) THEN premium_keywords[c] ELSE <<>>

\* C22: the strategy of a country says the keyword is premium exactly when
\* one of the country's premium keywords occurs in it, case ignored; it has
\* monetization_level maximum and revenue_multiplier 1.5 exactly then, and
\* high and 1.0 otherwise, a country without a profile included.
C22_PremiumKeyword ==
  Returned("strategy") =>
    \A i \in 1..Len(call.args.target_countries) :
      LET c == call.args.target_countries[i]
          strategy == call.result[c]
          premium == \E j \in 1..Len(ListedPremium(c)) :
                       OccursIgnoringCase(ListedPremium(c)[j], call.args.keyword)
      IN  /\ strategy.is_premium_keyword = premium
          /\ premium => /\ strategy.monetization_level = "maximum"
                        /\ strategy.revenue_multiplier = 15
          /\ ~premium => /\ strategy.monetization_level = "high"
                         /\ strategy.revenue_multiplier = 10

\* C22 witness: "Best INSURANCE" asked for the USA and a country without a
\* profile: premium in the first through a word in other case, not in the
\* second.
C22_Witness ==
  /\ Returned("strategy")
  /\ call.args.target_countries = <<"USA", "Zed">>
  /\ \E k \in 0..Len(call.args.keyword) - 9 :
       SubSeq(call.args.keyword, k + 1, k + 9)
         = <<"I", "N", "S", "U", "R", "A", "N", "C", "E">>
  /\ call.result["USA"].monetization_level = "maximum"
  /\ call.result["USA"].revenue_multiplier = 15
  /\ call.result["Zed"].monetization_level = "high"
  /\ call.result["Zed"].revenue_multiplier = 10

\* A content record whose spots, if it has any, all have a type.
WellFormed(r) ==
  "monetization_spots" \in DOMAIN r =>
    \A i \in 1..Len(r["monetization_spots"]) : "type" \in DOMAIN r["monetization_spots"][i]

\* C23: add_monetization never raises, and for a country without a profile
\* it optimizes every spot and attaches the prediction with the defaults as
\* the profile: cpm 5.0 (text_ad, low, within_content; 50.00 a month from
\* ads), ad_click_rate 0.05 and affiliate_conversion 0.02 (500.00 from
\* affiliates, 550.00 together), no recommended categories.
C23_DefaultsWithoutProfile ==
  Returned("monetize") =>
    /\ ~call.result.raised
    /\ (call.args.country \notin Range(RevenueCountries) /\ WellFormed(call.args.content)) =>
         LET given == call.args.content
             out == call.result.value
         IN  /\ "revenue_prediction" \in DOMAIN out
             /\ out["revenue_prediction"].cpm = 50000
             /\ out["revenue_prediction"].monthly_ad_revenue = 5000
             /\ out["revenue_prediction"].monthly_affiliate_revenue = 50000
             /\ out["revenue_prediction"].total_monthly_revenue = 55000
             /\ "monetization_spots" \in DOMAIN given =>
                  /\ Len(out["monetization_spots"]) = Len(given["monetization_spots"])
                  /\ \A i \in 1..Len(given["monetization_spots"]) :
                       LET spot == given["monetization_spots"][i]
                           done == out["monetization_spots"][i]
                       IN  /\ \A k \in DOMAIN spot : done[k] = spot[k]
                           /\ done["placement"] = "within_content"
                           /\ spot["type"] = "display_ad" =>
                                /\ done["ad_size"] = "text_ad"
                                /\ done["priority"] = "low"
                           /\ spot["type"] = "affiliate_link" =>
                                /\ done["recommended_categories"] = <<>>
                                /\ done["conversion_rate"] = 20

\* C23 witness: a record with a display ad and an affiliate link monetized
\* for a country without a profile.
C23_Witness ==
  /\ Returned("monetize")
  /\ call.args.country = "Zed"
  /\ "monetization_spots" \in DOMAIN call.args.content
  /\ WellFormed(call.args.content)
  /\ \E i, j \in 1..Len(call.args.content["monetization_spots"]) :
       /\ call.args.content["monetization_spots"][i]["type"] = "display_ad"
       /\ call.args.content["monetization_spots"][j]["type"] = "affiliate_link"
       /\ call.result.value["monetization_spots"][i]["ad_size"] = "text_ad"
       /\ call.result.value["monetization_spots"][j]["conversion_rate"] = 20
  /\ call.result.value["revenue_prediction"].total_monthly_revenue = 55000

C25_Claim ==
  (pc = "done" /\ run_result = "cancelled") =>
    /\ Last(units).stages = Chain(seo_optimization, auto_publish)
    /\ \A i \in DOMAIN units :
         "persist" \in Range(units[i].stages) =>
           /\ auto_publish => units[i].publish \in {"success", "failed"}
           /\ "count" \in Range(units[i].stages)

\* The rows of the content table for a country and a keyword.
StoredFor(country, keyword) ==
  Cardinality({n \in DOMAIN saved : saved[n] = <<country, keyword>>})

\* C26 as claimed: two runs with the same units, under way at the same
\* time, both complete the unit they share and both persist it: when both
\* have ended and neither the provider nor the store has failed, the table
\* holds two rows for each unit of theirs, one of each run; and each run's
\* total_generated is the number of its own counted units.
C26_Claim ==
  ( /\ other_run # NoRun
    /\ pc = "done" /\ other_run.pc = "done"
    /\ \A i \in DOMAIN units : units[i].gen_ok /\ units[i].store # "failed"
    /\ \A i \in DOMAIN other_run.units :
         other_run.units[i].gen_ok /\ other_run.units[i].store # "failed" )
  =>
    /\ \A i \in DOMAIN units :
         (\E j \in DOMAIN other_run.units :
            /\ other_run.units[j].country = units[i].country
            /\ other_run.units[j].keyword = units[i].keyword
            /\ other_run.units[j].content_type = units[i].content_type)
         => StoredFor(units[i].country, units[i].keyword) >= 2
    /\ total_generated
         = Cardinality({i \in DOMAIN units : units[i].outcome = "counted"})
    /\ other_run.total_generated
         = Cardinality({i \in DOMAIN other_run.units :
                          other_run.units[i].outcome = "counted"})

\* What the update added to the counts of the countries of cs, summed.
RECURSIVE AddedTo(_, _, _)
AddedTo(cs, before, after) ==
  IF cs = <<>> THEN 0
  ELSE after[Head(cs)] - Get(before, Head(cs), 0) + AddedTo(Tail(cs), before, after)

C28_Claim ==
  /\ pc \in Stages => design_config.html_template.kind = "str"
  /\ \A i \in DOMAIN units :
       "render" \in Range(units[i].stages) => units[i].error = "none"

\* The detection rule of a type holds for line i.
Triggers(type, i, line) ==
  CASE type = "affiliate_link" -> \E word \in ProductWords : OccursIgnoringCase(word, line)
    [] type = "display_ad" -> startswith(line, HeadingMarker) /\ i > 0
    [] type = "comparison_table" ->
         \E word \in ComparisonWords : OccursIgnoringCase(word, line)

\* Every spot of the record points at a line of the record's body, and that
\* line triggers the rule of the spot's type.
SpotsPointAtTheirLines(record) ==
  LET lines == split(record.content)
  IN  \A k \in 1..Len(record.monetization_spots) :
        LET spot == record.monetization_spots[k]
        IN  /\ spot.position \in 0..(Len(lines) - 1)
            /\ Triggers(spot.type, spot.position, lines[spot.position + 1])

\* C29 as claimed: in every content record the generator returns, built
\* from the template or parsed from the provider's text, each spot's
\* position is an index into the lines of the record's body, and the line
\* there is the one that triggered the spot.
C29_Claim ==
  (Returned("simulate") \/ Returned("parse")) => SpotsPointAtTheirLines(call.result)

\* The part of C29 that holds: the records parsed from the provider's text.
ParsedSpotsPointAtTheirLines ==
  Returned("parse") => SpotsPointAtTheirLines(call.result)

\* The cpm of the country's entry is the one the ranking score, the
\* optimization of the spots and the prediction have used: the score is the
\* formula on the recorded values, each display_ad has the class and each
\* spot the placement of the recorded cpm, and the prediction reports it.
UsesRecordedCpm(country, given, out) ==
  LET recorded == country_revenue_data[country].cpm
  IN  /\ revenue_score(country_revenue_data[country])
           = ProfileScore(country_revenue_data[country])
      /\ out["revenue_prediction"].cpm = recorded * 1000
      /\ out["revenue_prediction"].monthly_ad_revenue = recorded * 100
      /\ "monetization_spots" \in DOMAIN given =>
           \A k \in 1..Len(given["monetization_spots"]) :
             LET done == out["monetization_spots"][k]
             IN  /\ done["placement"]
                      = (IF recorded > 80 THEN "above_fold" ELSE "within_content")
                 /\ given["monetization_spots"][k]["type"] = "display_ad" =>
                      done["ad_size"]
                        = (IF recorded > 100 THEN "premium_banner"
                           ELSE IF recorded > 70 THEN "standard_banner"
                           ELSE "text_ad")

\* C30 as claimed: for every country of the built-in table the ranking
\* score, the optimization of the spots and the prediction use one cpm, the
\* one recorded in the country's entry.
C30_Claim ==
  ( /\ Returned("monetize")
    /\ call.args.country \in Range(RevenueCountries)
    /\ WellFormed(call.args.content) )
  => UsesRecordedCpm(call.args.country, call.args.content, call.result.value)

\* The part of C30 that holds: the countries whose entry spells the key cpm.
OneCpmWhereKeySpelled ==
  ( /\ Returned("monetize")
    /\ call.args.country \in Range(RevenueCountries)
    /\ country_revenue_data[call.args.country].has_cpm
    /\ WellFormed(call.args.content) )
  => UsesRecordedCpm(call.args.country, call.args.content, call.result.value)

====
